---- MODULE Spec2Model ----
(***************************************************************************)
(* Model of the tool-calling core of the athlete performance platform:     *)
(*   - chatWithTools / executeToolCall / extractTextFromResponse           *)
(*     (showcase/llm-integration/tool-calling.ts, lines 55-167)            *)
(*   - the MCP-like router: TOOL_REGISTRY, POST, GET                       *)
(*     (showcase/llm-integration/tool-calling.ts, lines 213-348)           *)
(*   - retrieval: retrieveRAGContext and the query on rag_documents        *)
(*     (showcase/rag/embeddings.ts, lines 36-135)                          *)
(* JavaScript values are modelled as tagged records so that truthiness,    *)
(* property lookup, JSON encoding and template strings behave as they do   *)
(* in the source.                                                          *)
(***************************************************************************)
EXTENDS Integers, Sequences, FiniteSets, TLC

VARIABLES
    pc,             \* position of the chatWithTools call
    message,        \* chatWithTools argument `message`
    response,       \* first model response (tool-calling.ts:92)
    content,        \* the tool_use block being executed (loop variable, :105)
    toolResult,     \* what executeToolCall produced (tool-calling.ts:109)
    toolResponse,   \* second model response (tool-calling.ts:115)
    modelCalls,     \* `messages` argument of every anthropic.messages.create call
    fetches,        \* request bodies handed to fetch by executeToolCall
    inflight,       \* HTTP response travelling back to executeToolCall
    outcome,        \* how chatWithTools ended: returned text or escaped error
    TOOL_REGISTRY,  \* the router's registry, in insertion order
    posts,          \* requests the router's POST has served, with responses
    handlerRuns,    \* every execution of a registered handler
    gets,           \* responses of the router's GET
    registrations,  \* assignments TOOL_REGISTRY[name] = ... made so far
    ragPc,          \* position of the retrieveRAGContext call
    query,          \* retrieveRAGContext argument `query`
    topK,           \* retrieveRAGContext argument `topK`
    embeddingCalls, \* inputs of every openai.embeddings.create call
    dbQueries,      \* arguments of every queryVectorDatabase call
    results,        \* rows queryVectorDatabase resolved with (embeddings.ts:80)
    ragOutcome,     \* how retrieveRAGContext ended: RAGContext or thrown error
    rag_documents,  \* the table rag_documents, rows in insertion order
    upserts,        \* every replacement of a document's chunks made so far
    calls           \* local state of each of two concurrent chatWithTools calls

ragVars == <<ragPc, query, topK, embeddingCalls, dbQueries, results, ragOutcome,
             rag_documents, upserts>>

vars == <<pc, message, response, content, toolResult, toolResponse, modelCalls,
          fetches, inflight, outcome, TOOL_REGISTRY, posts, handlerRuns,
          gets, registrations, ragVars, calls>>

-----------------------------------------------------------------------------
(* Bounds *)

MaxBlocks == 2      \* content blocks in one model response
MaxRequests == 2    \* HTTP requests served in one behaviour of RouterSpec

-----------------------------------------------------------------------------
(* JavaScript values *)

Undef == [t |-> "undefined"]
Null == [t |-> "null"]
Str(s) == [t |-> "string", v |-> s]
Num(n) == [t |-> "number", v |-> n]
Bool(b) == [t |-> "boolean", v |-> b]
Obj(f) == [t |-> "object", v |-> f]
Arr(s) == [t |-> "array", v |-> s]

\* An Error instance, or any other thrown value
Err(m) == [isError |-> TRUE, message |-> m]

\* JS truthiness, as used by `!tool_name`, `!parameters`, `!tool`, `!entity_id`
Truthy(x) ==
    CASE x.t = "undefined" -> FALSE
      [] x.t = "null" -> FALSE
      [] x.t = "string" -> x.v # ""
      [] x.t = "number" -> x.v # 0
      [] x.t = "boolean" -> x.v
      [] OTHER -> TRUE

\* Property read `x[k]` / destructuring of one key on a non-null value
Get(x, k) ==
    IF x.t = "object" /\ k \in DOMAIN x.v THEN x.v[k] ELSE Undef

\* String coercion inside a template literal
ToStr(x) ==
    CASE x.t = "string" -> x.v
      [] x.t = "undefined" -> "undefined"
      [] x.t = "null" -> "null"
      [] x.t = "boolean" -> IF x.v THEN "true" ELSE "false"
      [] OTHER -> "[object Object]"

\* JSON.stringify: keys whose value is undefined are dropped, undefined array
\* members become null.  The text is kept as the value it encodes.
RECURSIVE JSONencode(_)
JSONencode(x) ==
    CASE x.t = "object" ->
           Obj([k \in {j \in DOMAIN x.v : x.v[j].t # "undefined"} |-> JSONencode(x.v[k])])
      [] x.t = "array" ->
           Arr([i \in DOMAIN x.v |-> IF x.v[i].t = "undefined" THEN Null ELSE JSONencode(x.v[i])])
      [] OTHER -> x

JSONstringify(x) ==
    IF x.t = "undefined" THEN Undef ELSE [t |-> "json", v |-> JSONencode(x)]

\* JSON.parse / Response.json(): a value, or a thrown SyntaxError
JSONparse(s) ==
    IF s.t = "json"
    THEN [threw |-> FALSE, value |-> s.v]
    ELSE [threw |-> TRUE, error |-> Err("Unexpected token in JSON")]

-----------------------------------------------------------------------------
(* Tool list advertised to the model, tool-calling.ts:27-46 *)

TOOLS ==
    <<[name |-> "analyze_data",
       description |-> "Analyze comprehensive data across multiple sources and domains",
       required |-> <<"entity_id">>]>>

-----------------------------------------------------------------------------
(* Router: registry and handlers *)

\* retrieveAggregatedData, tool-calling.ts:332-348
retrieveAggregatedData(entityId, timePeriodDays) ==
    Obj([entity_id |-> entityId,
         time_period_days |-> timePeriodDays,
         data_sources |-> Arr(<<Str("source1"), Str("source2")>>),
         aggregated_data |-> Obj(<<>>)])

\* variant: the handler does not check entity_id
analyze_data_NoCheck(parameters) ==
    LET entity_id == Get(parameters, "entity_id")
        given == Get(parameters, "time_period_days")
        time_period_days == IF given.t = "undefined" THEN Num(730) ELSE given
    IN  [threw |-> FALSE, value |-> retrieveAggregatedData(entity_id, time_period_days)]

\* variant: time_period_days has no default value
analyze_data_NoDefault(parameters) ==
    LET entity_id == Get(parameters, "entity_id")
        time_period_days == Get(parameters, "time_period_days")
    IN  IF ~Truthy(entity_id)
        THEN [threw |-> TRUE, error |-> Err("entity_id parameter is required")]
        ELSE [threw |-> FALSE, value |-> retrieveAggregatedData(entity_id, time_period_days)]

\* handler of 'analyze_data', tool-calling.ts:216-228
analyze_data(parameters) ==
    LET entity_id == Get(parameters, "entity_id")
        given == Get(parameters, "time_period_days")
        time_period_days == IF given.t = "undefined" THEN Num(730) ELSE given
    IN  IF ~Truthy(entity_id)
        THEN [threw |-> TRUE, error |-> Err("entity_id parameter is required")]
        ELSE [threw |-> FALSE, value |-> retrieveAggregatedData(entity_id, time_period_days)]

\* handler of 'get_summary', tool-calling.ts:234-237
get_summary(parameters) ==
    [threw |-> FALSE, value |-> Obj([summary |-> Str("Example summary")])]

\* The registry as built at module load, tool-calling.ts:213-239
\* variant: the analysis tool is registered under another name
InitialRegistry_Renamed ==
    <<[name |-> "analyze",
       description |-> "Comprehensive data analysis tool with multi-modal data integration",
       handler |-> "analyze_data"],
      [name |-> "get_summary",
       description |-> "Get quick summary of entity data",
       handler |-> "get_summary"]>>

\* TOOL_REGISTRY, tool-calling.ts:213-239
InitialRegistry ==
    <<[name |-> "analyze_data",
       description |-> "Comprehensive data analysis tool with multi-modal data integration",
       handler |-> "analyze_data"],
      [name |-> "get_summary",
       description |-> "Get quick summary of entity data",
       handler |-> "get_summary"]>>

\* Object.keys(TOOL_REGISTRY): own keys in insertion order
ObjectKeys(reg) == [i \in 1..Len(reg) |-> reg[i].name]

RegisteredNames(reg) == {reg[i].name : i \in 1..Len(reg)}

\* Members every object literal inherits from Object.prototype
ObjectPrototypeKeys ==
    {"constructor", "toString", "valueOf", "hasOwnProperty", "isPrototypeOf",
     "propertyIsEnumerable", "toLocaleString", "__proto__",
     "__defineGetter__", "__defineSetter__", "__lookupGetter__", "__lookupSetter__"}

\* variant: a name that is not registered yields the first entry
Lookup_FirstEntry(reg, tool_name) ==
    LET key == ToStr(tool_name)
        i == IF key \in RegisteredNames(reg)
             THEN CHOOSE j \in 1..Len(reg) : reg[j].name = key
             ELSE 1
    IN  [t |-> "tool", name |-> reg[i].name, description |-> reg[i].description,
         handler |-> reg[i].handler]

\* TOOL_REGISTRY[tool_name], tool-calling.ts:268: an own entry, an inherited
\* member of Object.prototype, or undefined
Lookup(reg, tool_name) ==
    LET key == ToStr(tool_name) IN
    IF key \in RegisteredNames(reg)
    THEN LET i == CHOOSE j \in 1..Len(reg) : reg[j].name = key
         IN  [t |-> "tool", name |-> key, description |-> reg[i].description,
              handler |-> reg[i].handler]
    ELSE IF key \in ObjectPrototypeKeys
    THEN [t |-> "function", name |-> key]
    ELSE Undef

\* tool.handler(parameters), tool-calling.ts:282
CallHandler(tool, parameters) ==
    IF tool.t # "tool"
    THEN [threw |-> TRUE, error |-> Err("tool.handler is not a function")]
    ELSE IF tool.handler = "analyze_data" THEN analyze_data(parameters)
    ELSE get_summary(parameters)

\* variant: the message of the error is not used
ErrorText_Unknown(error) == "Unknown error"

\* `${error instanceof Error ? error.message : 'Unknown error'}`
ErrorText(error) == IF error.isError THEN error.message ELSE "Unknown error"

\* variant: the status option is not passed on
NextResponseJson_NoStatus(body, status) ==
    [status |-> 200, ok |-> TRUE, body |-> JSONstringify(body)]

\* NextResponse.json(body, {status})
NextResponseJson(body, status) ==
    [status |-> status, ok |-> (status >= 200 /\ status <= 299),
     body |-> JSONstringify(body)]

-----------------------------------------------------------------------------
(* Router POST handler, tool-calling.ts:245-309.  The result pairs the HTTP  *)
(* response with the handler executions the request caused.                  *)

\* variant: the registry lookup precedes the check of `parameters`
POST_LookupFirst(raw) ==
    LET parsed == JSONparse(raw) IN
    IF parsed.threw \/ parsed.value.t \in {"null", "undefined"}
    THEN \* request.json() rejects, or destructuring null throws: outer catch
         [response |-> NextResponseJson(Obj([error |-> Str("Invalid JSON in request body")]), 400),
          runs |-> <<>>]
    ELSE
    LET body == parsed.value
        tool_name == Get(body, "tool_name")
        parameters == Get(body, "parameters")
    IN
    IF ~Truthy(tool_name)
    THEN [response |-> NextResponseJson(Obj([error |-> Str("Missing required field: tool_name")]), 400),
          runs |-> <<>>]
    ELSE
    LET tool == Lookup(TOOL_REGISTRY, tool_name) IN
    IF ~Truthy(tool)
    THEN [response |-> NextResponseJson(
                          Obj([error |-> Str("Unknown tool: " \o ToStr(tool_name)),
                               available_tools |->
                                   Arr([i \in 1..Len(TOOL_REGISTRY) |->
                                           Str(ObjectKeys(TOOL_REGISTRY)[i])])]), 400),
          runs |-> <<>>]
    ELSE IF ~Truthy(parameters)
    THEN [response |-> NextResponseJson(Obj([error |-> Str("Missing required field: parameters")]), 400),
          runs |-> <<>>]
    ELSE
    LET result == CallHandler(tool, parameters)
        runs == IF tool.t = "tool"
                THEN <<[name |-> tool.name, handler |-> tool.handler,
                        parameters |-> parameters, threw |-> result.threw,
                        message |-> IF result.threw THEN result.error.message ELSE "",
                        value |-> IF result.threw THEN Undef ELSE result.value]>>
                ELSE <<>>
    IN
    IF ~result.threw
    THEN [response |-> NextResponseJson(
                          Obj([success |-> Bool(TRUE),
                               tool_name |-> tool_name,
                               result |-> JSONstringify(result.value)]), 200),
          runs |-> runs]
    ELSE [response |-> NextResponseJson(
                          Obj([error |-> Str("Tool execution failed: " \o ErrorText(result.error)),
                               tool_name |-> tool_name]), 500),
          runs |-> runs]

POST(raw) ==
    LET parsed == JSONparse(raw) IN
    IF parsed.threw \/ parsed.value.t \in {"null", "undefined"}
    THEN \* request.json() rejects, or destructuring null throws: outer catch
         [response |-> NextResponseJson(Obj([error |-> Str("Invalid JSON in request body")]), 400),
          runs |-> <<>>]
    ELSE
    LET body == parsed.value
        tool_name == Get(body, "tool_name")
        parameters == Get(body, "parameters")
    IN
    IF ~Truthy(tool_name)
    THEN [response |-> NextResponseJson(Obj([error |-> Str("Missing required field: tool_name")]), 400),
          runs |-> <<>>]
    ELSE IF ~Truthy(parameters)
    THEN [response |-> NextResponseJson(Obj([error |-> Str("Missing required field: parameters")]), 400),
          runs |-> <<>>]
    ELSE
    LET tool == Lookup(TOOL_REGISTRY, tool_name) IN
    IF ~Truthy(tool)
    THEN [response |-> NextResponseJson(
                          Obj([error |-> Str("Unknown tool: " \o ToStr(tool_name)),
                               available_tools |->
                                   Arr([i \in 1..Len(TOOL_REGISTRY) |->
                                           Str(ObjectKeys(TOOL_REGISTRY)[i])])]), 400),
          runs |-> <<>>]
    ELSE
    LET result == CallHandler(tool, parameters)
        runs == IF tool.t = "tool"
                THEN <<[name |-> tool.name, handler |-> tool.handler,
                        parameters |-> parameters, threw |-> result.threw,
                        message |-> IF result.threw THEN result.error.message ELSE "",
                        value |-> IF result.threw THEN Undef ELSE result.value]>>
                ELSE <<>>
    IN
    IF ~result.threw
    THEN [response |-> NextResponseJson(
                          Obj([success |-> Bool(TRUE),
                               tool_name |-> tool_name,
                               result |-> JSONstringify(result.value)]), 200),
          runs |-> runs]
    ELSE [response |-> NextResponseJson(
                          Obj([error |-> Str("Tool execution failed: " \o ErrorText(result.error)),
                               tool_name |-> tool_name]), 500),
          runs |-> runs]

-----------------------------------------------------------------------------
(* Inputs *)

ToolNames == {Undef, Str(""), Str("analyze_data"), Str("get_summary"),
              Str("foo"), Str("constructor")}

ParameterValues ==
    {Undef, Null, Obj(<<>>),
     Obj([entity_id |-> Str("123")]),
     Obj([entity_id |-> Str("")]),
     Obj([entity_id |-> Str("123"), time_period_days |-> Num(365)])}

\* Bodies a client can send: text that is not JSON, the JSON text `null`,
\* and JSON objects with any of the two fields present or absent
RawBodies ==
    {Str("not json"), JSONstringify(Null)} \cup
    {JSONstringify(Obj([tool_name |-> n, parameters |-> p])) :
        n \in ToolNames, p \in ParameterValues}

-----------------------------------------------------------------------------
(* Model responses *)

TextBlock(s) == [type |-> "text", text |-> s]
ThinkingBlock(s) == [type |-> "thinking", thinking |-> s]
ToolUseBlock(id, name, input) ==
    [type |-> "tool_use", id |-> id, name |-> name, input |-> input]

Blocks ==
    {TextBlock("Here is the analysis."), TextBlock("Done."),
     ThinkingBlock("..."),
     ToolUseBlock("toolu_1", "analyze_data", Obj([entity_id |-> Str("123")])),
     ToolUseBlock("toolu_2", "analyze_data", Obj(<<>>)),
     ToolUseBlock("toolu_3", "get_summary", Obj([entity_id |-> Str("123")])),
     ToolUseBlock("toolu_4", "foo", Obj([entity_id |-> Str("123")]))}

\* `content` arrays the model can answer with
Contents == UNION {[1..n -> Blocks] : n \in 0..MaxBlocks}

\* resolved values of anthropic.messages.create
Responses == {[received |-> TRUE, content |-> c] : c \in Contents}

Messages == {"Analyze entity 123", "Hello"}

\* Errors anthropic.messages.create can reject with
ApiErrors == {Err("rate_limit_error"), Err("overloaded_error")}

NoBlock == [type |-> "none"]
NoMessage == [received |-> FALSE, content |-> <<>>]
NoToolResult == [status |-> "none", value |-> Undef, error |-> Err("")]
NoOutcome == [kind |-> "none", line |-> 0, text |-> ""]
NoResponse == [status |-> 0, ok |-> FALSE, body |-> Undef]
NoRAGOutcome == [kind |-> "none", knowledgeBaseArticles |-> <<>>, totalResults |-> 0,
                 error |-> Err(""), caught |-> Err("")]
NoRows == [resolved |-> FALSE, rows |-> <<>>, after |-> 0]

-----------------------------------------------------------------------------
(* chatWithTools and its helpers, tool-calling.ts:55-167 *)

\* Array.prototype.join
RECURSIVE Join(_, _)
Join(parts, sep) ==
    IF parts = <<>> THEN ""
    ELSE IF Len(parts) = 1 THEN parts[1]
    ELSE parts[1] \o sep \o Join(Tail(parts), sep)

\* the textParts array built by the loop of extractTextFromResponse
RECURSIVE TextParts(_)
TextParts(blocks) ==
    IF blocks = <<>> THEN <<>>
    ELSE IF Head(blocks).type = "text"
         THEN <<Head(blocks).text>> \o TextParts(Tail(blocks))
         ELSE TextParts(Tail(blocks))

\* variant: the parts are joined without a separator
extractTextFromResponse_Concat(resp) == Join(TextParts(resp.content), "")

\* extractTextFromResponse, tool-calling.ts:157-167
extractTextFromResponse(resp) == Join(TextParts(resp.content), "\n")

\* variant: the loop keeps going and the last tool_use block wins
FirstToolUse_Last(resp) ==
    IF \E i \in 1..Len(resp.content) : resp.content[i].type = "tool_use"
    THEN CHOOSE i \in 1..Len(resp.content) :
            /\ resp.content[i].type = "tool_use"
            /\ \A j \in (i + 1)..Len(resp.content) : resp.content[j].type # "tool_use"
    ELSE 0

\* index of the block at which the loop at :105 first enters the if, or 0
FirstToolUse(resp) ==
    IF \E i \in 1..Len(resp.content) : resp.content[i].type = "tool_use"
    THEN CHOOSE i \in 1..Len(resp.content) :
            /\ resp.content[i].type = "tool_use"
            /\ \A j \in 1..(i - 1) : resp.content[j].type # "tool_use"
    ELSE 0

\* body given to fetch by executeToolCall, tool-calling.ts:62-65
executeToolCallBody(toolCall) ==
    JSONstringify(Obj([tool_name |-> Str(toolCall.name),
                       parameters |-> toolCall.input]))

\* executeToolCall after fetch resolved, tool-calling.ts:68-74
Thrown(e) == [status |-> "threw", value |-> Undef, error |-> e]
Returned(v) == [status |-> "ok", value |-> v, error |-> Err("")]

executeToolCallResult(resp) ==
    LET parsed == JSONparse(resp.body) IN
    IF parsed.threw THEN Thrown(parsed.error)
    ELSE IF ~resp.ok
    THEN Thrown(Err("Tool execution failed: " \o ToStr(Get(parsed.value, "error"))))
    ELSE LET result == JSONparse(Get(parsed.value, "result"))
         IN  IF result.threw THEN Thrown(result.error) ELSE Returned(result.value)

\* variant: the tool result is labelled with the tool's name
ToolResultTurn_ByName(block, result) ==
    [role |-> "user",
     content |-> <<[type |-> "tool_result", tool_use_id |-> block.name,
                    content |-> JSONstringify(result)]>>]

UserTurn(m) == [role |-> "user", content |-> Str(m)]
AssistantTurn(block) == [role |-> "assistant", content |-> <<block>>]
ToolResultTurn(block, result) ==
    [role |-> "user",
     content |-> <<[type |-> "tool_result", tool_use_id |-> block.id,
                    content |-> JSONstringify(result)]>>]

\* the catch block at :143-146
CaughtText(error) == "Error executing tool: " \o ErrorText(error)

\* the two calls in progress at the same time
Calls == {"first", "second"}

\* local variables of a chatWithTools call that has not started
NoCall == [pc |-> "idle", message |-> "", response |-> NoMessage, content |-> NoBlock,
           toolResult |-> NoToolResult, toolResponse |-> NoMessage,
           modelCalls |-> <<>>, fetches |-> <<>>, inflight |-> NoResponse,
           outcome |-> NoOutcome]

Init ==
    /\ pc = "idle"
    /\ message = ""
    /\ response = NoMessage
    /\ content = NoBlock
    /\ toolResult = NoToolResult
    /\ toolResponse = NoMessage
    /\ modelCalls = <<>>
    /\ fetches = <<>>
    /\ inflight = NoResponse
    /\ outcome = NoOutcome
    /\ TOOL_REGISTRY = InitialRegistry
    /\ posts = <<>>
    /\ handlerRuns = <<>>
    /\ gets = <<>>
    /\ registrations = <<>>
    /\ ragPc = "idle"
    /\ query = ""
    /\ topK = 0
    /\ embeddingCalls = <<>>
    /\ dbQueries = <<>>
    /\ results = NoRows
    /\ ragOutcome = NoRAGOutcome
    /\ rag_documents = <<>>
    /\ upserts = <<>>
    /\ calls = [c \in Calls |-> NoCall]

\* chatWithTools is called: first anthropic.messages.create, :92-102
ChatStart(m) ==
    /\ pc = "idle"
    /\ message' = m
    /\ modelCalls' = Append(modelCalls, <<UserTurn(m)>>)
    /\ pc' = "model1"
    /\ UNCHANGED <<calls, response, content, toolResult, toolResponse, fetches, inflight,
                   outcome, TOOL_REGISTRY, gets, registrations, ragVars, posts, handlerRuns>>

\* the first model call rejects: nothing catches it, :92
ModelFails ==
    /\ pc = "model1"
    /\ \E e \in ApiErrors :
          outcome' = [kind |-> "throw", line |-> 92, text |-> ErrorText(e)]
    /\ pc' = "done"
    /\ UNCHANGED <<calls, message, response, content, toolResult, toolResponse, modelCalls,
                   fetches, inflight, TOOL_REGISTRY, gets, registrations, ragVars, posts, handlerRuns>>

\* the first model call resolves: loop at :105 up to the fetch at :59, or the
\* plain text return at :151
ModelResponds(resp) ==
    /\ pc = "model1"
    /\ response' = resp
    /\ IF FirstToolUse(resp) = 0
       THEN /\ outcome' = [kind |-> "return", line |-> 151,
                           text |-> extractTextFromResponse(resp)]
            /\ pc' = "done"
            /\ UNCHANGED <<content, fetches>>
       ELSE /\ content' = resp.content[FirstToolUse(resp)]
            /\ fetches' = Append(fetches,
                                 executeToolCallBody(resp.content[FirstToolUse(resp)]))
            /\ pc' = "fetch"
            /\ UNCHANGED outcome
    /\ UNCHANGED <<calls, message, toolResult, toolResponse, modelCalls, inflight,
                   TOOL_REGISTRY, gets, registrations, ragVars, posts, handlerRuns>>

\* the router serves the request sent by executeToolCall
RouterServes ==
    /\ pc = "fetch"
    /\ LET raw == fetches[Len(fetches)]
           r == POST(raw)
       IN  /\ posts' = Append(posts, [request |-> raw, response |-> r.response,
                                      runs |-> r.runs])
           /\ handlerRuns' = handlerRuns \o r.runs
           /\ inflight' = r.response
    /\ pc' = "response"
    /\ UNCHANGED <<calls, message, response, content, toolResult, toolResponse, modelCalls,
                   fetches, outcome, TOOL_REGISTRY, gets, registrations, ragVars>>

\* fetch rejects (network error), before or after the router ran: catch at :143
FetchFails ==
    /\ pc \in {"fetch", "response"}
    /\ toolResult' = Thrown(Err("fetch failed"))
    /\ outcome' = [kind |-> "return", line |-> 145,
                   text |-> CaughtText(Err("fetch failed"))]
    /\ pc' = "done"
    /\ UNCHANGED <<calls, message, response, content, toolResponse, modelCalls, fetches,
                   inflight, TOOL_REGISTRY, gets, registrations, ragVars, posts, handlerRuns>>

\* an intermediary replaces the response by one whose body is not JSON
ResponseReplaced(status) ==
    /\ pc = "response"
    /\ inflight.body.t = "json"
    /\ inflight' = [status |-> status, ok |-> (status >= 200 /\ status <= 299),
                    body |-> Str("<html>")]
    /\ UNCHANGED <<calls, pc, message, response, content, toolResult, toolResponse,
                   modelCalls, fetches, outcome, TOOL_REGISTRY, gets, registrations, ragVars, posts, handlerRuns>>

\* variant: executeToolCall is awaited outside the try block
ResponseReceived_NoCatch ==
    /\ pc = "response"
    /\ toolResult' = executeToolCallResult(inflight)
    /\ IF toolResult'.status = "threw"
       THEN /\ outcome' = [kind |-> "throw", line |-> 109,
                           text |-> ErrorText(toolResult'.error)]
            /\ pc' = "done"
            /\ UNCHANGED modelCalls
       ELSE /\ modelCalls' = Append(modelCalls,
                                 <<UserTurn(message), AssistantTurn(content),
                                   ToolResultTurn(content, toolResult'.value)>>)
            /\ pc' = "model2"
            /\ UNCHANGED outcome
    /\ UNCHANGED <<calls, message, response, content, toolResponse, fetches, inflight,
                   TOOL_REGISTRY, gets, registrations, ragVars, posts, handlerRuns>>

\* variant: a failure of executeToolCall is handed to the model as the tool result
ResponseReceived_FeedsError ==
    /\ pc = "response"
    /\ toolResult' = executeToolCallResult(inflight)
    /\ modelCalls' = Append(modelCalls,
                            <<UserTurn(message), AssistantTurn(content),
                              ToolResultTurn(content,
                                  IF toolResult'.status = "threw"
                                  THEN Str(CaughtText(toolResult'.error))
                                  ELSE toolResult'.value)>>)
    /\ pc' = "model2"
    /\ UNCHANGED <<calls, message, response, content, toolResponse, fetches, inflight,
                   outcome, TOOL_REGISTRY, gets, registrations, ragVars, posts,
                   handlerRuns>>

\* fetch resolved: rest of executeToolCall, then the second
\* anthropic.messages.create at :115-139, or the catch at :143
ResponseReceived ==
    /\ pc = "response"
    /\ toolResult' = executeToolCallResult(inflight)
    /\ IF toolResult'.status = "threw"
       THEN /\ outcome' = [kind |-> "return", line |-> 145,
                           text |-> CaughtText(toolResult'.error)]
            /\ pc' = "done"
            /\ UNCHANGED modelCalls
       ELSE /\ modelCalls' = Append(modelCalls,
                                 <<UserTurn(message), AssistantTurn(content),
                                   ToolResultTurn(content, toolResult'.value)>>)
            /\ pc' = "model2"
            /\ UNCHANGED outcome
    /\ UNCHANGED <<calls, message, response, content, toolResponse, fetches, inflight,
                   TOOL_REGISTRY, gets, registrations, ragVars, posts, handlerRuns>>

\* the second model call rejects inside the try: catch at :143
ToolModelFails ==
    /\ pc = "model2"
    /\ \E e \in ApiErrors :
          outcome' = [kind |-> "return", line |-> 145, text |-> CaughtText(e)]
    /\ pc' = "done"
    /\ UNCHANGED <<calls, message, response, content, toolResult, toolResponse, modelCalls,
                   fetches, inflight, TOOL_REGISTRY, gets, registrations, ragVars, posts, handlerRuns>>

\* variant: a tool_use block in the second response is executed too and the
\* model is asked again
ToolModelResponds_Loop(resp) ==
    /\ pc = "model2"
    /\ Len(modelCalls) < 3
    /\ toolResponse' = resp
    /\ IF \E i \in 1..Len(resp.content) : resp.content[i].type = "tool_use"
       THEN /\ content' = resp.content[CHOOSE i \in 1..Len(resp.content) :
                                            resp.content[i].type = "tool_use"]
            /\ fetches' = Append(fetches, executeToolCallBody(content'))
            /\ pc' = "fetch"
            /\ UNCHANGED outcome
       ELSE /\ outcome' = [kind |-> "return", line |-> 142,
                           text |-> extractTextFromResponse(resp)]
            /\ pc' = "done"
            /\ UNCHANGED <<content, fetches>>
    /\ UNCHANGED <<calls, message, response, toolResult, modelCalls, inflight,
                   TOOL_REGISTRY, gets, registrations, ragVars, posts, handlerRuns>>

\* variant: the text of the first response is returned
ToolModelResponds_First(resp) ==
    /\ pc = "model2"
    /\ toolResponse' = resp
    /\ outcome' = [kind |-> "return", line |-> 142,
                   text |-> extractTextFromResponse(response)]
    /\ pc' = "done"
    /\ UNCHANGED <<calls, message, response, content, toolResult, modelCalls, fetches,
                   inflight, TOOL_REGISTRY, gets, registrations, ragVars, posts, handlerRuns>>

\* the second model call resolves: return at :142
ToolModelResponds(resp) ==
    /\ pc = "model2"
    /\ toolResponse' = resp
    /\ outcome' = [kind |-> "return", line |-> 142,
                   text |-> extractTextFromResponse(resp)]
    /\ pc' = "done"
    /\ UNCHANGED <<calls, message, response, content, toolResult, modelCalls, fetches,
                   inflight, TOOL_REGISTRY, gets, registrations, ragVars, posts, handlerRuns>>

Next ==
    \/ \E m \in Messages : ChatStart(m)
    \/ ModelFails
    \/ \E resp \in Responses : ModelResponds(resp)
    \/ RouterServes
    \/ FetchFails
    \/ \E status \in {200, 502} : ResponseReplaced(status)
    \/ ResponseReceived
    \/ ToolModelFails
    \/ \E resp \in Responses : ToolModelResponds(resp)

Spec == Init /\ [][Next]_vars

\* awaited promises settle: every enabled step is eventually taken
FairSpec == Spec /\ WF_vars(Next)

-----------------------------------------------------------------------------
(* The router serving HTTP requests of arbitrary clients *)

\* variant: a request for an unknown name leaves a placeholder in the registry
HttpPost_Registers(raw) ==
    /\ Len(posts) + Len(gets) < MaxRequests
    /\ LET r == POST(raw)
           name == Get(IF JSONparse(raw).threw THEN Undef ELSE JSONparse(raw).value,
                       "tool_name")
       IN  /\ posts' = Append(posts, [request |-> raw, response |-> r.response,
                                      runs |-> r.runs])
           /\ handlerRuns' = handlerRuns \o r.runs
           /\ TOOL_REGISTRY' =
                 IF r.response.status = 400 /\ Truthy(name)
                 THEN Append(TOOL_REGISTRY, [name |-> ToStr(name), description |-> "",
                                             handler |-> "get_summary"])
                 ELSE TOOL_REGISTRY
    /\ UNCHANGED <<calls, pc, message, response, content, toolResult, toolResponse,
                   modelCalls, fetches, inflight, outcome, gets, registrations,
                   ragVars>>

HttpPost(raw) ==
    /\ Len(posts) + Len(gets) < MaxRequests
    /\ LET r == POST(raw)
       IN  /\ posts' = Append(posts, [request |-> raw, response |-> r.response,
                                      runs |-> r.runs])
           /\ handlerRuns' = handlerRuns \o r.runs
    /\ UNCHANGED <<calls, pc, message, response, content, toolResult, toolResponse,
                   modelCalls, fetches, inflight, outcome, TOOL_REGISTRY, gets,
                   registrations, ragVars>>

\* variant: the listing stops one entry early
GET_DropsLast ==
    NextResponseJson(
        Obj([success |-> Bool(TRUE),
             available_tools |->
                 Arr([i \in 1..(Len(TOOL_REGISTRY) - 1) |->
                         Obj([name |-> Str(TOOL_REGISTRY[i].name),
                              description |-> Str(TOOL_REGISTRY[i].description)])]),
             message |-> Str("MCP Router - Available Tools")]), 200)

\* Router GET handler, tool-calling.ts:315-326
GET ==
    NextResponseJson(
        Obj([success |-> Bool(TRUE),
             available_tools |->
                 Arr([i \in 1..Len(TOOL_REGISTRY) |->
                         Obj([name |-> Str(TOOL_REGISTRY[i].name),
                              description |-> Str(TOOL_REGISTRY[i].description)])]),
             message |-> Str("MCP Router - Available Tools")]), 200)

HttpGet ==
    /\ Len(posts) + Len(gets) < MaxRequests
    /\ gets' = Append(gets, [response |-> GET, after |-> Len(posts)])
    /\ UNCHANGED <<calls, pc, message, response, content, toolResult, toolResponse,
                   modelCalls, fetches, inflight, outcome, TOOL_REGISTRY, posts,
                   handlerRuns, registrations, ragVars>>

RouterNext ==
    \/ \E raw \in RawBodies : HttpPost(raw)
    \/ HttpGet

RouterSpec == Init /\ [][RouterNext]_vars

-----------------------------------------------------------------------------
(* Building the registry: the assignment TOOL_REGISTRY[name] = {description, *)
(* handler} of mcp-router/README.md:58-71 and docs/MCP_ARCHITECTURE.md:176   *)

MaxRegistrations == 2

NewToolNames == {"analyze_data", "get_summary", "new_tool"}
NewDescriptions == {"Description for LLM", "Get quick summary of entity"}
NewHandlers == {"analyze_data", "get_summary"}

\* obj[name] = entry on an object: an own key keeps its position and gets the
\* new value, a new key is added last
AssignKey(reg, entry) ==
    IF entry.name \in RegisteredNames(reg)
    THEN [i \in 1..Len(reg) |-> IF reg[i].name = entry.name THEN entry ELSE reg[i]]
    ELSE Append(reg, entry)

\* variant: an existing entry is kept
AddTool_KeepExisting(name, description, handler) ==
    /\ Len(registrations) < MaxRegistrations
    /\ TOOL_REGISTRY' =
          IF name \in RegisteredNames(TOOL_REGISTRY) THEN TOOL_REGISTRY
          ELSE AssignKey(TOOL_REGISTRY,
                         [name |-> name, description |-> description, handler |-> handler])
    /\ registrations' = Append(registrations,
                               [name |-> name, description |-> description,
                                handler |-> handler, before |-> TOOL_REGISTRY,
                                threw |-> "none"])
    /\ UNCHANGED <<calls, pc, message, response, content, toolResult, toolResponse,
                   modelCalls, fetches, inflight, outcome, posts, handlerRuns, gets,
                   ragVars>>

AddTool(name, description, handler) ==
    /\ Len(registrations) < MaxRegistrations
    /\ TOOL_REGISTRY' =
          AssignKey(TOOL_REGISTRY,
                    [name |-> name, description |-> description, handler |-> handler])
    /\ registrations' = Append(registrations,
                               [name |-> name, description |-> description,
                                handler |-> handler, before |-> TOOL_REGISTRY,
                                threw |-> "none"])
    /\ UNCHANGED <<calls, pc, message, response, content, toolResult, toolResponse,
                   modelCalls, fetches, inflight, outcome, posts, handlerRuns, gets,
                   ragVars>>

RegistryNext ==
    \E name \in NewToolNames, description \in NewDescriptions, handler \in NewHandlers :
        AddTool(name, description, handler)

RegistrySpec == Init /\ [][RegistryNext]_vars

-----------------------------------------------------------------------------
(* Retrieval, rag/embeddings.ts:36-135 *)

MaxUpserts == 2     \* replacements of a document's chunks

\* decimal digits of a natural number
RECURSIVE Digits(_)
Digits(n) ==
    LET d == <<"0", "1", "2", "3", "4", "5", "6", "7", "8", "9">>
    IN  IF n < 10 THEN d[n + 1] ELSE Digits(n \div 10) \o d[(n % 10) + 1]

\* parseFloat(x).toFixed(4) for x = score / 100000: sign, integer part and
\* four decimals, the magnitude rounded to the nearest 0.0001
ToFixed4(score) ==
    LET magnitude == IF score < 0 THEN 0 - score ELSE score
        n == (magnitude + 5) \div 10
        frac == n % 10000
        pad == IF frac < 10 THEN "000" ELSE IF frac < 100 THEN "00"
               ELSE IF frac < 1000 THEN "0" ELSE ""
    IN  (IF score < 0 THEN "-" ELSE "") \o Digits(n \div 10000) \o "." \o pad \o Digits(frac)

\* embedding.join(',')
RECURSIVE JoinNumbers(_)
JoinNumbers(embedding) ==
    IF embedding = <<>> THEN ""
    ELSE IF Len(embedding) = 1 THEN Digits(embedding[1])
    ELSE Digits(embedding[1]) \o "," \o JoinNumbers(Tail(embedding))

\* embeddingToVectorString, embeddings.ts:58-60
embeddingToVectorString(embedding) == "[" \o JoinNumbers(embedding) \o "]"

\* variant: the block starts with the content and ends with the source line
FormatArticle_ContentFirst(result) ==
    result.content \o "\n" \o "[Source: " \o result.document_source \o " (Similarity: "
        \o ToFixed4(result.similarity_score) \o ")]"

\* the template of embeddings.ts:91
FormatArticle(result) ==
    "[Source: " \o result.document_source \o " (Similarity: "
        \o ToFixed4(result.similarity_score) \o ")]\n" \o result.content

\* variant: an empty result set is treated as a failure
RAGContextOf_EmptyFails(rows) ==
    IF rows = <<>>
    THEN [kind |-> "throw", knowledgeBaseArticles |-> <<>>, totalResults |-> 0,
          error |-> Err("RAG retrieval failed: No results"), caught |-> Err("No results")]
    ELSE [kind |-> "return",
          knowledgeBaseArticles |-> [i \in 1..Len(rows) |-> FormatArticle(rows[i])],
          totalResults |-> Len(rows), error |-> Err(""), caught |-> Err("")]

\* retrieveRAGContext after the query resolved, embeddings.ts:82-97
RAGContextOf(rows) ==
    IF rows = <<>>
    THEN [kind |-> "return", knowledgeBaseArticles |-> <<>>, totalResults |-> 0,
          error |-> Err(""), caught |-> Err("")]
    ELSE LET knowledgeArticles == [i \in 1..Len(rows) |-> FormatArticle(rows[i])]
         IN  [kind |-> "return", knowledgeBaseArticles |-> knowledgeArticles,
              totalResults |-> Len(knowledgeArticles), error |-> Err(""),
              caught |-> Err("")]

\* variant: the caught error is thrown again as it is
RAGCatch_Rethrow(error) ==
    [kind |-> "throw", knowledgeBaseArticles |-> <<>>, totalResults |-> 0,
     error |-> error, caught |-> error]

\* the catch block of retrieveRAGContext, embeddings.ts:99-102
RAGCatch(error) ==
    [kind |-> "throw", knowledgeBaseArticles |-> <<>>, totalResults |-> 0,
     error |-> Err("RAG retrieval failed: " \o ErrorText(error)), caught |-> error]

Queries == {"recovery after injury", "sprint training load"}
TopKs == {-1, 0, 1, 5}
Embeddings == {<<1, 0, 0>>, <<2, 2, 1>>}

\* errors openai.embeddings.create can reject with
EmbeddingErrors ==
    {[isError |-> TRUE, message |-> "429 Rate limit reached", name |-> "RateLimitError"],
     [isError |-> TRUE, message |-> "Connection error.", name |-> "APIConnectionError"]}

\* errors the database client can reject with
VectorStoreErrors ==
    {[isError |-> TRUE, message |-> "relation rag_documents does not exist",
      name |-> "DatabaseError"],
     [isError |-> TRUE, message |-> "LIMIT must not be negative",
      name |-> "DatabaseError"]}

\* documents of the knowledge base and the chunks ingestion stores for them
Documents == {"training.pdf", "recovery.docx"}

ChunkLists ==
    {<<[content |-> "Progressive overload builds strength.", embedding |-> <<1, 2, 2>>]>>,
     <<[content |-> "Sleep drives recovery.", embedding |-> <<1, 0, 0>>],
       [content |-> "Hydration aids recovery.", embedding |-> <<1, 0, 0>>]>>,
     <<[content |-> "Ticket prices for the season.", embedding |-> <<-1, 0, 0>>]>>}

RECURSIVE Dot(_, _)
Dot(a, b) == IF a = <<>> THEN 0 ELSE a[1] * b[1] + Dot(Tail(a), Tail(b))

\* length of a vector whose length is a whole number
Norm(a) == CHOOSE n \in 0..Dot(a, a) : n * n = Dot(a, a)

\* embedding <=> $1::vector, the cosine distance, in units of 0.00001
CosineDistance(a, b) == 100000 - ((Dot(a, b) * 100000) \div (Norm(a) * Norm(b)))

\* $1::vector: the vector the string of embeddingToVectorString denotes
ParseVector(embeddingString) ==
    CHOOSE e \in Embeddings : embeddingToVectorString(e) = embeddingString

\* ORDER BY embedding <=> $1::vector: the orders of the rows the sort may
\* produce; rows at the same distance come in any order
DistanceOrders(table, vector) ==
    LET n == Len(table)
        d(i) == CosineDistance(table[i].embedding, vector)
    IN  {p \in [1..n -> 1..n] :
            /\ \A i, j \in 1..n : i # j => p[i] # p[j]
            /\ \A i \in 1..(n - 1) : d(p[i]) <= d(p[i + 1])}

\* SELECT content, document_source, 1 - (embedding <=> $1::vector) AS
\* similarity_score ... LIMIT $2 for one order of the rows
SelectedRows(table, vector, limit, p) ==
    LET m == IF limit < Len(table) THEN limit ELSE Len(table)
    IN  [i \in 1..m |->
            [content |-> table[p[i]].content,
             document_source |-> table[p[i]].document_source,
             similarity_score |->
                 100000 - CosineDistance(table[p[i]].embedding, vector)]]

\* the answers the query of embeddings.ts:121-128 can give
SelectSimilar(table, vector, limit) ==
    {SelectedRows(table, vector, limit, p) : p \in DistanceOrders(table, vector)}

\* variant: the new chunks are added, the old ones stay
Upsert_KeepsOld(document_source, chunks) ==
    /\ Len(upserts) < MaxUpserts
    /\ rag_documents' = rag_documents \o
            [i \in 1..Len(chunks) |->
                [document_source |-> document_source, content |-> chunks[i].content,
                 embedding |-> chunks[i].embedding]]
    /\ upserts' = Append(upserts, [document_source |-> document_source, chunks |-> chunks])
    /\ UNCHANGED <<calls, pc, message, response, content, toolResult, toolResponse,
                   modelCalls, fetches, inflight, outcome, TOOL_REGISTRY, posts,
                   handlerRuns, gets, registrations, ragPc, query, topK,
                   embeddingCalls, dbQueries, results, ragOutcome>>

\* (re-)ingestion of a document: its old rows are removed and the new chunks
\* inserted as one replacement
Upsert(document_source, chunks) ==
    /\ Len(upserts) < MaxUpserts
    /\ rag_documents' =
            SelectSeq(rag_documents, LAMBDA r : r.document_source # document_source) \o
            [i \in 1..Len(chunks) |->
                [document_source |-> document_source, content |-> chunks[i].content,
                 embedding |-> chunks[i].embedding]]
    /\ upserts' = Append(upserts, [document_source |-> document_source, chunks |-> chunks])
    /\ UNCHANGED <<calls, pc, message, response, content, toolResult, toolResponse,
                   modelCalls, fetches, inflight, outcome, TOOL_REGISTRY, posts,
                   handlerRuns, gets, registrations, ragPc, query, topK,
                   embeddingCalls, dbQueries, results, ragOutcome>>

\* retrieveRAGContext is called: generateEmbedding calls the embedding service,
\* embeddings.ts:75 and :44-47
RagStart(q, k) ==
    /\ ragPc = "idle"
    /\ query' = q
    /\ topK' = k
    /\ embeddingCalls' = Append(embeddingCalls,
                                [model |-> "text-embedding-3-small", input |-> q])
    /\ ragPc' = "embedding"
    /\ UNCHANGED <<calls, pc, message, response, content, toolResult, toolResponse,
                   modelCalls, fetches, inflight, outcome, TOOL_REGISTRY, posts,
                   handlerRuns, gets, registrations, rag_documents, upserts, dbQueries, results, ragOutcome>>

\* the embedding arrives: embeddingToVectorString and queryVectorDatabase, :76-80
EmbeddingResolves(embedding) ==
    /\ ragPc = "embedding"
    /\ dbQueries' = Append(dbQueries,
                           [embeddingString |-> embeddingToVectorString(embedding),
                            topK |-> topK])
    /\ ragPc' = "query"
    /\ UNCHANGED <<calls, pc, message, response, content, toolResult, toolResponse,
                   modelCalls, fetches, inflight, outcome, TOOL_REGISTRY, posts,
                   handlerRuns, gets, registrations, rag_documents, upserts, query, topK, embeddingCalls,
                   results, ragOutcome>>

\* variant: a failed embedding is answered with an empty context
EmbeddingRejects_EmptyContext(e) ==
    /\ ragPc = "embedding"
    /\ ragOutcome' = [RAGContextOf(<<>>) EXCEPT !.caught = e]
    /\ ragPc' = "done"
    /\ UNCHANGED <<calls, pc, message, response, content, toolResult, toolResponse,
                   modelCalls, fetches, inflight, outcome, TOOL_REGISTRY, posts,
                   handlerRuns, gets, registrations, rag_documents, upserts,
                   query, topK, embeddingCalls, dbQueries, results>>

\* the embedding call rejects: catch at :99
EmbeddingRejects(e) ==
    /\ ragPc = "embedding"
    /\ ragOutcome' = RAGCatch(e)
    /\ ragPc' = "done"
    /\ UNCHANGED <<calls, pc, message, response, content, toolResult, toolResponse,
                   modelCalls, fetches, inflight, outcome, TOOL_REGISTRY, posts,
                   handlerRuns, gets, registrations, rag_documents, upserts, query, topK, embeddingCalls,
                   dbQueries, results>>

\* what the pending queryVectorDatabase call can resolve with
QueryAnswers ==
    IF dbQueries = <<>> \/ dbQueries[Len(dbQueries)].topK < 0 THEN {}
    ELSE SelectSimilar(rag_documents,
                       ParseVector(dbQueries[Len(dbQueries)].embeddingString),
                       dbQueries[Len(dbQueries)].topK)

\* the query of :121-128 resolves with rows of the table: :82-97
QueryResolves ==
    /\ ragPc = "query"
    /\ \E rows \in QueryAnswers :
          /\ results' = [resolved |-> TRUE, rows |-> rows, after |-> Len(upserts)]
          /\ ragOutcome' = RAGContextOf(rows)
    /\ ragPc' = "done"
    /\ UNCHANGED <<calls, pc, message, response, content, toolResult, toolResponse,
                   modelCalls, fetches, inflight, outcome, TOOL_REGISTRY, posts,
                   handlerRuns, gets, registrations, rag_documents, upserts,
                   query, topK, embeddingCalls, dbQueries>>

\* the query rejects: catch at :99
QueryRejects(e) ==
    /\ ragPc = "query"
    /\ (e.message = "LIMIT must not be negative") <=> (dbQueries[Len(dbQueries)].topK < 0)
    /\ ragOutcome' = RAGCatch(e)
    /\ ragPc' = "done"
    /\ UNCHANGED <<calls, pc, message, response, content, toolResult, toolResponse,
                   modelCalls, fetches, inflight, outcome, TOOL_REGISTRY, posts,
                   handlerRuns, gets, registrations, rag_documents, upserts, query, topK, embeddingCalls,
                   dbQueries, results>>

RagNext ==
    \/ \E q \in Queries, k \in TopKs : RagStart(q, k)
    \/ \E embedding \in Embeddings : EmbeddingResolves(embedding)
    \/ \E e \in EmbeddingErrors : EmbeddingRejects(e)
    \/ QueryResolves
    \/ \E e \in VectorStoreErrors : QueryRejects(e)
    \/ \E d \in Documents, chunks \in ChunkLists : Upsert(d, chunks)

RagSpec == Init /\ [][RagNext]_vars

-----------------------------------------------------------------------------
(* Two chatWithTools calls in progress at the same time: every await of      *)
(* tool-calling.ts:84-152 is a point at which the other call can run.  Each  *)
(* call has its own `message`, `response`, `content`, `toolResult` and       *)
(* `toolResponse`; the router and its registry are shared.                   *)

singleCallVars == <<pc, message, response, content, toolResult, toolResponse,
                    modelCalls, fetches, inflight, outcome, TOOL_REGISTRY, gets,
                    registrations, ragVars>>

\* what the model answers to the calls
ConcurrentResponses ==
    {[received |-> TRUE, content |-> <<b>>] :
        b \in {TextBlock("Here is the analysis."), TextBlock("Done."),
               ToolUseBlock("toolu_1", "analyze_data", Obj([entity_id |-> Str("123")])),
               ToolUseBlock("toolu_3", "get_summary", Obj([entity_id |-> Str("123")])),
               ToolUseBlock("toolu_4", "foo", Obj([entity_id |-> Str("123")]))}}

\* chatWithTools(message) is called: first messages.create, :92
ConcurrentStart(c, m) ==
    /\ calls[c].pc = "idle"
    /\ calls' = [calls EXCEPT ![c].message = m,
                              ![c].modelCalls = Append(@, <<UserTurn(m)>>),
                              ![c].pc = "model1"]
    /\ UNCHANGED <<singleCallVars, posts, handlerRuns>>

\* the first model call rejects, :92
ConcurrentModelFails(c) ==
    /\ calls[c].pc = "model1"
    /\ \E e \in ApiErrors :
          calls' = [calls EXCEPT ![c].outcome = [kind |-> "throw", line |-> 92,
                                                 text |-> ErrorText(e)],
                                 ![c].pc = "done"]
    /\ UNCHANGED <<singleCallVars, posts, handlerRuns>>

\* the first model call resolves: loop at :105 up to the fetch at :59, or :151
ConcurrentModelResponds(c, resp) ==
    /\ calls[c].pc = "model1"
    /\ IF FirstToolUse(resp) = 0
       THEN calls' = [calls EXCEPT ![c].response = resp,
                                   ![c].outcome = [kind |-> "return", line |-> 151,
                                                   text |-> extractTextFromResponse(resp)],
                                   ![c].pc = "done"]
       ELSE calls' = [calls EXCEPT ![c].response = resp,
                                   ![c].content = resp.content[FirstToolUse(resp)],
                                   ![c].fetches =
                                       Append(@, executeToolCallBody(
                                                     resp.content[FirstToolUse(resp)])),
                                   ![c].pc = "fetch"]
    /\ UNCHANGED <<singleCallVars, posts, handlerRuns>>

\* the router serves the request of call c
ConcurrentRouterServes(c) ==
    /\ calls[c].pc = "fetch"
    /\ LET raw == calls[c].fetches[Len(calls[c].fetches)]
           r == POST(raw)
       IN  /\ posts' = Append(posts, [request |-> raw, response |-> r.response,
                                      runs |-> r.runs])
           /\ handlerRuns' = handlerRuns \o r.runs
           /\ calls' = [calls EXCEPT ![c].inflight = r.response,
                                     ![c].pc = "response"]
    /\ UNCHANGED singleCallVars

\* fetch rejects: catch at :143
ConcurrentFetchFails(c) ==
    /\ calls[c].pc \in {"fetch", "response"}
    /\ calls' = [calls EXCEPT ![c].toolResult = Thrown(Err("fetch failed")),
                              ![c].outcome = [kind |-> "return", line |-> 145,
                                              text |-> CaughtText(Err("fetch failed"))],
                              ![c].pc = "done"]
    /\ UNCHANGED <<singleCallVars, posts, handlerRuns>>

\* variant: executeToolCall reads the answer the router gave last, to whichever call
ConcurrentResponseReceived_LatestAnswer(c) ==
    /\ calls[c].pc = "response"
    /\ LET result == executeToolCallResult(posts[Len(posts)].response)
       IN  IF result.status = "threw"
           THEN calls' = [calls EXCEPT ![c].toolResult = result,
                                       ![c].outcome = [kind |-> "return", line |-> 145,
                                                       text |-> CaughtText(result.error)],
                                       ![c].pc = "done"]
           ELSE calls' = [calls EXCEPT ![c].toolResult = result,
                                       ![c].modelCalls =
                                           Append(@, <<UserTurn(calls[c].message),
                                                       AssistantTurn(calls[c].content),
                                                       ToolResultTurn(calls[c].content,
                                                                      result.value)>>),
                                       ![c].pc = "model2"]
    /\ UNCHANGED <<singleCallVars, posts, handlerRuns>>

\* fetch resolved: rest of executeToolCall, then the second messages.create
\* at :115-139, or the catch at :143
ConcurrentResponseReceived(c) ==
    /\ calls[c].pc = "response"
    /\ LET result == executeToolCallResult(calls[c].inflight)
       IN  IF result.status = "threw"
           THEN calls' = [calls EXCEPT ![c].toolResult = result,
                                       ![c].outcome = [kind |-> "return", line |-> 145,
                                                       text |-> CaughtText(result.error)],
                                       ![c].pc = "done"]
           ELSE calls' = [calls EXCEPT ![c].toolResult = result,
                                       ![c].modelCalls =
                                           Append(@, <<UserTurn(calls[c].message),
                                                       AssistantTurn(calls[c].content),
                                                       ToolResultTurn(calls[c].content,
                                                                      result.value)>>),
                                       ![c].pc = "model2"]
    /\ UNCHANGED <<singleCallVars, posts, handlerRuns>>

\* the second model call rejects inside the try: catch at :143
ConcurrentToolModelFails(c) ==
    /\ calls[c].pc = "model2"
    /\ \E e \in ApiErrors :
          calls' = [calls EXCEPT ![c].outcome = [kind |-> "return", line |-> 145,
                                                 text |-> CaughtText(e)],
                                 ![c].pc = "done"]
    /\ UNCHANGED <<singleCallVars, posts, handlerRuns>>

\* the second model call resolves: return at :142
ConcurrentToolModelResponds(c, resp) ==
    /\ calls[c].pc = "model2"
    /\ calls' = [calls EXCEPT ![c].toolResponse = resp,
                              ![c].outcome = [kind |-> "return", line |-> 142,
                                              text |-> extractTextFromResponse(resp)],
                              ![c].pc = "done"]
    /\ UNCHANGED <<singleCallVars, posts, handlerRuns>>

ConcurrentNext ==
    \/ \E c \in Calls, m \in Messages : ConcurrentStart(c, m)
    \/ \E c \in Calls : ConcurrentModelFails(c)
    \/ \E c \in Calls, resp \in ConcurrentResponses : ConcurrentModelResponds(c, resp)
    \/ \E c \in Calls : ConcurrentRouterServes(c)
    \/ \E c \in Calls : ConcurrentFetchFails(c)
    \/ \E c \in Calls : ConcurrentResponseReceived(c)
    \/ \E c \in Calls : ConcurrentToolModelFails(c)
    \/ \E c \in Calls, resp \in ConcurrentResponses : ConcurrentToolModelResponds(c, resp)

ConcurrentSpec == Init /\ [][ConcurrentNext]_vars

-----------------------------------------------------------------------------
(* Properties of chatWithTools *)

\* the first tool_use block of a content array, by position
IsFirstToolUse(blocks, i) ==
    /\ i \in 1..Len(blocks)
    /\ blocks[i].type = "tool_use"
    /\ \A j \in 1..(i - 1) : blocks[j].type # "tool_use"

ToolUseCount(blocks) == Cardinality({i \in 1..Len(blocks) : blocks[i].type = "tool_use"})

\* C1: whenever the Tool Router call made for a tool-use request fails (non-success
\* status, network error or undecodable answer), chatWithTools has ended by
\* returning a text that describes the failure; nothing is thrown.
C1_RouterFailureReturnsText ==
    toolResult.status = "threw" =>
        /\ pc = "done"
        /\ outcome.kind = "return"
        /\ outcome.text = "Error executing tool: " \o toolResult.error.message

\* a router answer with a non-success status was turned into the returned text
C1_Witness ==
    /\ pc = "done"
    /\ toolResult.status = "threw"
    /\ posts # <<>>
    /\ posts[1].response.status = 500
    /\ inflight = posts[1].response
    /\ outcome.kind = "return"

\* C2: on every failure path of chatWithTools, the first model call failing
\* included, the call ends by returning a text answer and no error escapes.
C2_EveryFailureReturnsText ==
    pc = "done" => outcome.kind = "return"

\* C3: when the first response asks for a registered tool and its handler
\* succeeds, the router is invoked exactly once with the request's name and
\* parameters, the model is called a second time, and the text returned is the
\* text of the second response.
C3_ToolRoundTrip ==
    (handlerRuns # <<>> /\ ~handlerRuns[1].threw /\ toolResult.status = "ok") =>
        /\ Len(fetches) = 1 /\ Len(posts) = 1 /\ Len(handlerRuns) = 1
        /\ \E i \in 1..Len(response.content) :
              /\ IsFirstToolUse(response.content, i)
              /\ JSONparse(posts[1].request).value =
                    Obj([tool_name |-> Str(response.content[i].name),
                         parameters |-> response.content[i].input])
              /\ handlerRuns[1].name = response.content[i].name
              /\ handlerRuns[1].parameters = response.content[i].input
        /\ Len(modelCalls) = 2
        /\ pc \in {"model2", "done"}
        /\ toolResponse.received =>
              /\ pc = "done"
              /\ outcome.kind = "return"
              /\ outcome.text = Join(TextParts(toolResponse.content), "\n")

\* analyze_data ran for entity 123 and the answer differs from the first text
C3_Witness ==
    /\ pc = "done"
    /\ toolResponse.received
    /\ handlerRuns # <<>>
    /\ handlerRuns[1].name = "analyze_data"
    /\ ~handlerRuns[1].threw
    /\ Get(handlerRuns[1].parameters, "entity_id") = Str("123")
    /\ TextParts(response.content) # <<>>
    /\ TextParts(toolResponse.content) # <<>>
    /\ TextParts(response.content) # TextParts(toolResponse.content)
    /\ outcome.text = Join(TextParts(toolResponse.content), "\n")

\* C4: of several tool_use blocks in one response only the first is executed:
\* at most one router invocation happens and it is for the first block.
C4_OnlyFirstToolUse ==
    /\ Len(fetches) <= 1 /\ Len(posts) <= 1 /\ Len(handlerRuns) <= 1
    /\ fetches # <<>> =>
          \E i \in 1..Len(response.content) :
              /\ IsFirstToolUse(response.content, i)
              /\ content = response.content[i]
              /\ JSONparse(fetches[1]).value =
                    Obj([tool_name |-> Str(response.content[i].name),
                         parameters |-> response.content[i].input])
    /\ \A k \in 1..Len(handlerRuns) :
          \E i \in 1..Len(response.content) :
              /\ IsFirstToolUse(response.content, i)
              /\ handlerRuns[k].name = response.content[i].name
              /\ handlerRuns[k].parameters = response.content[i].input

\* a response with two different tool_use blocks was processed to the end
C4_Witness ==
    /\ pc = "done"
    /\ ToolUseCount(response.content) >= 2
    /\ response.content[1] # response.content[2]
    /\ Len(posts) = 1
    /\ Len(handlerRuns) = 1

\* C5 as stated: the model is re-invoked until a response without a tool-use
\* request arrives, so the text returned always comes from such a response.
C5_ReinvokedUntilPlainText ==
    (pc = "done" /\ outcome.kind = "return" /\ outcome.line # 145) =>
        IF toolResponse.received
        THEN ToolUseCount(toolResponse.content) = 0
        ELSE ToolUseCount(response.content) = 0

\* C5 amended: the model is re-invoked once, after the first tool result; when
\* its second response is itself a tool-use request, no router call is made for
\* it, the model is not invoked again, and the text segments of that second
\* response are returned.
C5_SecondToolUseNotExecuted ==
    (toolResponse.received /\ ToolUseCount(toolResponse.content) > 0) =>
        /\ pc = "done"
        /\ Len(fetches) = 1
        /\ Len(posts) <= 1
        /\ Len(modelCalls) = 2
        /\ outcome.kind = "return"
        /\ outcome.line = 142
        /\ outcome.text = Join(TextParts(toolResponse.content), "\n")

\* the second response asked for a tool again and the call ended with its text
C5_Witness ==
    /\ pc = "done"
    /\ toolResponse.received
    /\ ToolUseCount(toolResponse.content) > 0
    /\ TextParts(toolResponse.content) # <<>>
    /\ outcome.line = 142

\* C6: whatever the model and the router do, one chatWithTools call makes at
\* most two model completion calls and then ends (returns or fails).
C6_AtMostTwoModelCalls ==
    /\ [](Len(modelCalls) <= 2)
    /\ [](Len(modelCalls) = 2 => pc \in {"model2", "done"})
    /\ (pc = "model1" ~> pc = "done")

\* two model calls were made, the second answer asked for a tool, the call ended
C6_Witness ==
    /\ pc = "done"
    /\ Len(modelCalls) = 2
    /\ toolResponse.received
    /\ ToolUseCount(toolResponse.content) > 0

\* C7: the message list of the second model call is the list of the first call
\* (the user turn) followed by the assistant tool-use turn and the tool-result
\* turn, and the tool-result turn carries the id of the executed block.
C7_HistoryAppended ==
    Len(modelCalls) >= 2 =>
        /\ modelCalls[1] = <<[role |-> "user", content |-> Str(message)]>>
        /\ Len(modelCalls[2]) = Len(modelCalls[1]) + 2
        /\ SubSeq(modelCalls[2], 1, Len(modelCalls[1])) = modelCalls[1]
        /\ \E i \in 1..Len(response.content) :
              /\ IsFirstToolUse(response.content, i)
              /\ modelCalls[2][2].role = "assistant"
              /\ modelCalls[2][2].content = <<response.content[i]>>
              /\ Len(modelCalls[2][3].content) = 1
              /\ modelCalls[2][3].content[1].type = "tool_result"
              /\ modelCalls[2][3].content[1].tool_use_id = response.content[i].id
              /\ modelCalls[2][3].content[1].content = JSONstringify(toolResult.value)

\* the second model call was made after get_summary ran for block toolu_3
C7_Witness ==
    /\ Len(modelCalls) = 2
    /\ Len(modelCalls[2]) = 3
    /\ modelCalls[2][3].content[1].tool_use_id = "toolu_3"
    /\ handlerRuns # <<>>
    /\ handlerRuns[1].name = "get_summary"

\* C8 as stated: a response without tool-use block makes chatWithTools return
\* the plain concatenation of its text segments, with no router call and no
\* further model call.
C8_PlainConcatenation ==
    (response.received /\ ToolUseCount(response.content) = 0) =>
        /\ pc = "done"
        /\ outcome.kind = "return"
        /\ outcome.text = Join(TextParts(response.content), "")
        /\ fetches = <<>> /\ posts = <<>> /\ handlerRuns = <<>>
        /\ Len(modelCalls) = 1

\* C8 amended: the text segments are returned in their original order joined
\* by a newline between consecutive segments; non-text blocks contribute
\* nothing; no router call and no further model call is made.
C8_NewlineJoinedText ==
    (response.received /\ ToolUseCount(response.content) = 0) =>
        /\ pc = "done"
        /\ outcome.kind = "return"
        /\ outcome.line = 151
        /\ outcome.text = Join(TextParts(response.content), "\n")
        /\ fetches = <<>> /\ posts = <<>> /\ handlerRuns = <<>>
        /\ Len(modelCalls) = 1
        /\ ~toolResponse.received

\* a response of two different text segments was returned
C8_Witness ==
    /\ pc = "done"
    /\ response.received
    /\ ToolUseCount(response.content) = 0
    /\ Len(TextParts(response.content)) = 2
    /\ response.content[1] # response.content[2]
    /\ outcome.kind = "return"

-----------------------------------------------------------------------------
(* Properties of the router *)

\* decoded request body of the i-th served request (Undef when undecodable)
RequestBody(i) ==
    LET parsed == JSONparse(posts[i].request)
    IN  IF parsed.threw THEN Undef ELSE parsed.value

\* decoded response envelope of the i-th served request
Envelope(i) == JSONparse(posts[i].response.body).value

\* C9: for every unregistered tool name sent with parameters, POST executes no
\* handler and answers with a client error whose available_tools lists exactly
\* the registered names and not the requested one.
C9_UnknownToolListsRegistered ==
    \A i \in 1..Len(posts) :
        LET name == Get(RequestBody(i), "tool_name")
            parameters == Get(RequestBody(i), "parameters")
        IN  (/\ name.t = "string" /\ name.v # ""
             /\ name.v \notin {"analyze_data", "get_summary"}
             /\ Truthy(parameters)) =>
                /\ posts[i].runs = <<>>
                /\ posts[i].response.status = 400
                /\ "available_tools" \in DOMAIN Envelope(i).v
                /\ LET listed == Envelope(i).v.available_tools.v
                   IN  /\ {listed[k] : k \in DOMAIN listed} =
                              {Str("analyze_data"), Str("get_summary")}
                       /\ \A k \in DOMAIN listed : listed[k] # name

\* C10: when the handler of a registered tool throws, POST answers with a
\* server error {error, tool_name} carrying the handler's message and the
\* requested name; the failure does not leave POST in any other form.
C10_HandlerFailureEnvelope ==
    \A i \in 1..Len(posts) :
        (posts[i].runs # <<>> /\ posts[i].runs[1].threw) =>
            /\ posts[i].response.status = 500
            /\ ~posts[i].response.ok
            /\ Envelope(i) =
                  Obj([error |-> Str("Tool execution failed: " \o posts[i].runs[1].message),
                       tool_name |-> Get(RequestBody(i), "tool_name")])
            /\ posts[i].runs[1].message = "entity_id parameter is required"
            /\ Get(RequestBody(i), "tool_name") = Str(posts[i].runs[1].name)

\* analyze_data was called without entity_id and threw
C10_Witness ==
    \E i \in 1..Len(posts) :
        /\ posts[i].runs # <<>>
        /\ posts[i].runs[1].threw
        /\ posts[i].runs[1].name = "analyze_data"
        /\ posts[i].response.status = 500

\* the request names a tool that is not in the registry
NamesUnregistered(i) ==
    LET name == Get(RequestBody(i), "tool_name")
    IN  /\ name.t = "string" /\ name.v # ""
        /\ name.v \notin {"analyze_data", "get_summary"}

\* C11 as stated: the name lookup comes before the parameter check, so a
\* request naming an unregistered tool gets the unknown-tool error with
\* available_tools even when its parameters are missing.
C11_LookupBeforeParameters ==
    \A i \in 1..Len(posts) :
        (NamesUnregistered(i) /\ ~Truthy(Get(RequestBody(i), "parameters"))) =>
            /\ posts[i].response.status = 400
            /\ "available_tools" \in DOMAIN Envelope(i).v
            /\ Envelope(i).v.error =
                  Str("Unknown tool: " \o Get(RequestBody(i), "tool_name").v)

\* C11 amended: the required-field checks (tool_name, then parameters) come
\* before the name lookup: a request naming an unregistered tool whose
\* parameters are missing gets the client error "Missing required field:
\* parameters" without available_tools, and no handler runs.
C11_ParametersBeforeLookup ==
    \A i \in 1..Len(posts) :
        (NamesUnregistered(i) /\ ~Truthy(Get(RequestBody(i), "parameters"))) =>
            /\ posts[i].response.status = 400
            /\ Envelope(i) = Obj([error |-> Str("Missing required field: parameters")])
            /\ posts[i].runs = <<>>

\* tool "foo" was requested without parameters
C11_Witness ==
    \E i \in 1..Len(posts) :
        /\ Get(RequestBody(i), "tool_name") = Str("foo")
        /\ Get(RequestBody(i), "parameters") = Undef
        /\ posts[i].response.status = 400

\* the request is for analyze_data with a parameters object lacking entity_id
LacksEntityId(i) ==
    LET parameters == Get(RequestBody(i), "parameters")
    IN  /\ Get(RequestBody(i), "tool_name") = Str("analyze_data")
        /\ parameters.t = "object"
        /\ "entity_id" \notin DOMAIN parameters.v

\* C12 as stated: parameters are validated against the tool's schema before
\* the handler runs, so analyze_data without entity_id is rejected with a
\* client error and its handler is never executed.
C12_ValidatedBeforeHandler ==
    \A i \in 1..Len(posts) :
        LacksEntityId(i) =>
            /\ posts[i].response.status = 400
            /\ posts[i].runs = <<>>

\* C12 amended: POST does no schema validation; analyze_data without entity_id
\* reaches its handler, which throws "entity_id parameter is required" before
\* retrieving data, and POST answers with the handler-failure envelope and a
\* server-error status.
C12_HandlerRejectsMissingField ==
    \A i \in 1..Len(posts) :
        LacksEntityId(i) =>
            /\ Len(posts[i].runs) = 1
            /\ posts[i].runs[1].handler = "analyze_data"
            /\ posts[i].runs[1].parameters = Get(RequestBody(i), "parameters")
            /\ posts[i].runs[1].threw
            /\ posts[i].runs[1].value = Undef
            /\ posts[i].response.status = 500
            /\ "success" \notin DOMAIN Envelope(i).v
            /\ Envelope(i).v.error =
                  Str("Tool execution failed: entity_id parameter is required")

\* analyze_data was requested with the empty parameters object
C12_Witness ==
    \E i \in 1..Len(posts) :
        /\ LacksEntityId(i)
        /\ Get(RequestBody(i), "parameters") = Obj(<<>>)
        /\ posts[i].response.status = 500

\* C13: a successful handler gives {success: true, tool_name, result} with
\* result the JSON text of the returned value, and what executeToolCall decodes
\* from it is exactly the value the handler returned.
C13_ResultRoundTrip ==
    /\ \A i \in 1..Len(posts) :
          (posts[i].runs # <<>> /\ ~posts[i].runs[1].threw) =>
              /\ posts[i].response.status = 200
              /\ Envelope(i).v.success = Bool(TRUE)
              /\ Envelope(i).v.tool_name = Get(RequestBody(i), "tool_name")
              /\ Envelope(i).v.result.t = "json"
              /\ DOMAIN Envelope(i).v = {"success", "tool_name", "result"}
    /\ toolResult.status = "ok" =>
          /\ Len(posts) = 1
          /\ posts[1].runs # <<>>
          /\ ~posts[1].runs[1].threw
          /\ toolResult.value = posts[1].runs[1].value

\* analyze_data returned its aggregate with the default period and it arrived
C13_Witness ==
    /\ toolResult.status = "ok"
    /\ handlerRuns # <<>>
    /\ handlerRuns[1].name = "analyze_data"
    /\ Get(toolResult.value, "entity_id") = Str("123")
    /\ Get(toolResult.value, "time_period_days") = Num(730)

\* C14 as stated: an unparsable body is answered with
\* {error: "invalid request body"} and a client-error status; no handler runs.
C14_InvalidRequestBody ==
    \A i \in 1..Len(posts) :
        JSONparse(posts[i].request).threw =>
            /\ posts[i].response.status = 400
            /\ Envelope(i) = Obj([error |-> Str("invalid request body")])
            /\ posts[i].runs = <<>>

\* C14 amended: the envelope is {error: "Invalid JSON in request body"}, with
\* status 400 and no handler run.
C14_InvalidJsonInRequestBody ==
    \A i \in 1..Len(posts) :
        JSONparse(posts[i].request).threw =>
            /\ posts[i].response.status = 400
            /\ ~posts[i].response.ok
            /\ Envelope(i) = Obj([error |-> Str("Invalid JSON in request body")])
            /\ posts[i].runs = <<>>

\* a body that is not JSON was served
C14_Witness ==
    \E i \in 1..Len(posts) :
        /\ posts[i].request = Str("not json")
        /\ posts[i].response.status = 400

\* the available_tools array of the i-th GET response
Listed(i) == JSONparse(gets[i].response.body).value.v.available_tools.v

\* C15: GET lists exactly one {name, description} entry per registered tool,
\* nothing else, and runs no handler.
C15_DiscoveryListsRegistry ==
    /\ [](\A i \in 1..Len(gets) :
            /\ gets[i].response.status = 200
            /\ Len(Listed(i)) = 2
            /\ {Listed(i)[k] : k \in 1..Len(Listed(i))} =
                  {Obj([name |-> Str("analyze_data"),
                        description |-> Str("Comprehensive data analysis tool with multi-modal data integration")]),
                   Obj([name |-> Str("get_summary"),
                        description |-> Str("Get quick summary of entity data")])})
    /\ [][gets' # gets => (handlerRuns' = handlerRuns /\ posts' = posts)]_vars

\* a listing was served after a request that ran a handler
C15_Witness ==
    /\ gets # <<>>
    /\ gets[1].after = 1
    /\ handlerRuns # <<>>
    /\ Len(Listed(1)) = 2

\* C16: after any sequence of POST and GET requests the registry has the names,
\* descriptions and handlers it had at startup.
C16_RegistryImmutable ==
    /\ ObjectKeys(TOOL_REGISTRY) = <<"analyze_data", "get_summary">>
    /\ TOOL_REGISTRY[1].description =
          "Comprehensive data analysis tool with multi-modal data integration"
    /\ TOOL_REGISTRY[1].handler = "analyze_data"
    /\ TOOL_REGISTRY[2].description = "Get quick summary of entity data"
    /\ TOOL_REGISTRY[2].handler = "get_summary"

\* a rejected POST and a GET were served
C16_Witness ==
    /\ Len(posts) = 1
    /\ Len(gets) = 1
    /\ posts[1].response.status = 400
    /\ "available_tools" \in DOMAIN Envelope(1).v
    /\ TOOL_REGISTRY = InitialRegistry

\* registry after the i-th assignment
RegistryAfter(i) ==
    IF i < Len(registrations) THEN registrations[i + 1].before ELSE TOOL_REGISTRY

\* C17 as stated: registering under a name already present fails with
\* DuplicateTool and leaves the existing entry unchanged.
C17_DuplicateRejected ==
    \A i \in 1..Len(registrations) :
        registrations[i].name \in RegisteredNames(registrations[i].before) =>
            /\ registrations[i].threw = "DuplicateTool"
            /\ RegistryAfter(i) = registrations[i].before

\* C17 amended: registering under a name already present does not fail; the
\* assignment replaces that entry's description and handler in place, the set
\* and order of names staying the same.
C17_DuplicateOverwrites ==
    \A i \in 1..Len(registrations) :
        registrations[i].name \in RegisteredNames(registrations[i].before) =>
            /\ registrations[i].threw = "none"
            /\ ObjectKeys(RegistryAfter(i)) = ObjectKeys(registrations[i].before)
            /\ \A k \in 1..Len(RegistryAfter(i)) :
                  IF RegistryAfter(i)[k].name = registrations[i].name
                  THEN /\ RegistryAfter(i)[k].description = registrations[i].description
                       /\ RegistryAfter(i)[k].handler = registrations[i].handler
                  ELSE RegistryAfter(i)[k] = registrations[i].before[k]

\* get_summary was assigned again with another description and handler
C17_Witness ==
    /\ Len(registrations) = 1
    /\ registrations[1].name = "get_summary"
    /\ registrations[1].description = "Get quick summary of entity"
    /\ registrations[1].handler = "analyze_data"
    /\ TOOL_REGISTRY # InitialRegistry
    /\ Len(TOOL_REGISTRY) = 2

-----------------------------------------------------------------------------
(* Properties of retrieval *)

\* C18: when the vector store returns no rows, retrieveRAGContext returns an
\* empty list with totalResults 0, whatever the query text, and does not fail.
C18_EmptyStoreEmptyContext ==
    (results.resolved /\ results.rows = <<>>) =>
        /\ ragPc = "done"
        /\ ragOutcome.kind = "return"
        /\ ragOutcome.knowledgeBaseArticles = <<>>
        /\ ragOutcome.totalResults = 0

\* a query with the default topK found nothing
C18_Witness ==
    /\ ragPc = "done"
    /\ results.resolved
    /\ results.rows = <<>>
    /\ topK = 5
    /\ query = "sprint training load"
    /\ Len(dbQueries) = 1

\* C19 as stated: when the embedding call fails, the caller receives that very
\* error, not a different or re-wrapped one.
C19_EmbeddingErrorUnchanged ==
    ragOutcome.caught \in EmbeddingErrors =>
        /\ ragOutcome.kind = "throw"
        /\ ragOutcome.error = ragOutcome.caught

\* C19 amended: when the embedding call fails, retrieveRAGContext fails with a
\* new Error whose message is "RAG retrieval failed: " followed by the message
\* of the embedding error.
C19_EmbeddingErrorWrapped ==
    ragOutcome.caught \in EmbeddingErrors =>
        /\ ragPc = "done"
        /\ ragOutcome.kind = "throw"
        /\ ragOutcome.error.isError
        /\ ragOutcome.error.message =
              "RAG retrieval failed: " \o ragOutcome.caught.message
        /\ ragOutcome.error # ragOutcome.caught

\* the embedding service answered 429 and the call failed
C19_Witness ==
    /\ ragPc = "done"
    /\ dbQueries = <<>>
    /\ ragOutcome.caught.message = "429 Rate limit reached"
    /\ ragOutcome.error.message = "RAG retrieval failed: 429 Rate limit reached"

\* C20: one formatted block per returned row, in row order, each built from the
\* row's source label, similarity score and content; totalResults is the
\* number of blocks.
C20_OneBlockPerRow ==
    results.resolved =>
        /\ ragOutcome.kind = "return"
        /\ Len(ragOutcome.knowledgeBaseArticles) = Len(results.rows)
        /\ ragOutcome.totalResults = Len(ragOutcome.knowledgeBaseArticles)
        /\ \A i \in 1..Len(results.rows) :
              ragOutcome.knowledgeBaseArticles[i] =
                  "[Source: " \o results.rows[i].document_source
                      \o " (Similarity: " \o ToFixed4(results.rows[i].similarity_score)
                      \o ")]\n" \o results.rows[i].content

\* three rows of two documents came back and were formatted in order
C20_Witness ==
    /\ ragPc = "done"
    /\ ragOutcome.totalResults = 3
    /\ ragOutcome.knowledgeBaseArticles =
          <<"[Source: training.pdf (Similarity: 0.8889)]\nProgressive overload builds strength.",
            "[Source: recovery.docx (Similarity: 0.6667)]\nSleep drives recovery.",
            "[Source: recovery.docx (Similarity: 0.6667)]\nHydration aids recovery.">>

C22_NonPositiveTopKRejected ==
    (ragPc # "idle" /\ topK <= 0) =>
        /\ dbQueries = <<>>
        /\ ~results.resolved
        /\ ragOutcome.kind # "return"
        /\ ragPc = "done" => ragOutcome.kind = "throw"

\* the order of the rows by ascending distance with rows at the same distance
\* in insertion order
InsertionOrder(table, vector) ==
    CHOOSE p \in DistanceOrders(table, vector) :
        \A i, j \in 1..Len(table) :
            (i < j /\ CosineDistance(table[p[i]].embedding, vector)
                        = CosineDistance(table[p[j]].embedding, vector)) => p[i] < p[j]

LatestChunks(document_source, n) ==
    LET ks == {k \in 1..n : upserts[k].document_source = document_source}
    IN  IF ks = {} THEN {}
        ELSE LET last == CHOOSE k \in ks : \A other \in ks : other <= k
             IN  {upserts[last].chunks[i].content : i \in 1..Len(upserts[last].chunks)}

\* C24: a query made after a document was ingested again returns, of that
\* document, only chunks of the new chunk set.
C24_OnlyNewChunksQueryable ==
    results.resolved =>
        \A i \in 1..Len(results.rows) :
            results.rows[i].content
                \in LatestChunks(results.rows[i].document_source, results.after)

\* a document was ingested twice with different chunks and then found by a query
C24_Witness ==
    /\ results.resolved
    /\ results.after = 2
    /\ upserts[1].document_source = upserts[2].document_source
    /\ upserts[1].chunks # upserts[2].chunks
    /\ results.rows # <<>>
    /\ \A i \in 1..Len(results.rows) :
          results.rows[i].document_source = upserts[2].document_source

\* C26: once the embedding step has failed, the vector store is never queried
\* and no result list is returned: the call ends with the failure.
C26_NoRetrievalAfterFailedEmbedding ==
    ragOutcome.caught \in EmbeddingErrors =>
        /\ dbQueries = <<>>
        /\ ~results.resolved
        /\ ragOutcome.kind = "throw"
        /\ ragOutcome.knowledgeBaseArticles = <<>>
        /\ ragPc = "done"

\* the embedding service was unreachable while the store held chunks
C26_Witness ==
    /\ ragPc = "done"
    /\ ragOutcome.caught.message = "Connection error."
    /\ Len(embeddingCalls) = 1
    /\ Len(rag_documents) = 2
    /\ dbQueries = <<>>

-----------------------------------------------------------------------------
(* Further properties of the router and of chatWithTools *)

\* the i-th request led to a handler execution that completed without error
HandlerCompleted(i) == posts[i].runs # <<>> /\ ~posts[i].runs[1].threw

\* C27: within one POST request a handler runs at most once and only when
\* tool_name is present, parameters is present and tool_name is registered; it
\* is the handler registered under the requested name and gets the request's
\* parameters.
C27_HandlerRunsOnceAfterChecks ==
    /\ \A i \in 1..Len(posts) :
          /\ Len(posts[i].runs) <= 1
          /\ posts[i].runs # <<>> =>
                LET tool_name == Get(RequestBody(i), "tool_name")
                    parameters == Get(RequestBody(i), "parameters")
                    run == posts[i].runs[1]
                IN  /\ Truthy(tool_name)
                    /\ Truthy(parameters)
                    /\ ToStr(tool_name) \in RegisteredNames(TOOL_REGISTRY)
                    /\ run.name = ToStr(tool_name)
                    /\ \E k \in 1..Len(TOOL_REGISTRY) :
                          /\ TOOL_REGISTRY[k].name = ToStr(tool_name)
                          /\ TOOL_REGISTRY[k].handler = run.handler
                    /\ run.parameters = parameters
    /\ Len(handlerRuns) <= Len(posts)

\* get_summary was requested with parameters and its handler ran
C27_Witness ==
    /\ Len(posts) = 2
    /\ Len(handlerRuns) = 1
    /\ posts[1].runs = <<>>
    /\ posts[2].runs # <<>>
    /\ posts[2].runs[1].handler = "get_summary"
    /\ Get(RequestBody(2), "tool_name") = Str("get_summary")

\* C28: every POST request ends with one response whose status is 200, 400 or
\* 500, and the success envelope is returned exactly when a handler was
\* executed and completed without error.
C28_OneResponseSuccessIffHandlerCompleted ==
    \A i \in 1..Len(posts) :
        /\ posts[i].response.status \in {200, 400, 500}
        /\ posts[i].response.body.t = "json"
        /\ Envelope(i).t = "object"
        /\ HandlerCompleted(i) <=> posts[i].response.status = 200
        /\ HandlerCompleted(i) <=> "success" \in DOMAIN Envelope(i).v
        /\ HandlerCompleted(i) =>
              /\ Envelope(i).v.success = Bool(TRUE)
              /\ posts[i].response.ok
        /\ ~HandlerCompleted(i) => "error" \in DOMAIN Envelope(i).v

\* one request succeeded and one was answered with a server error
C28_Witness ==
    /\ Len(posts) = 2
    /\ posts[1].response.status = 200
    /\ HandlerCompleted(1)
    /\ posts[2].response.status = 500
    /\ ~HandlerCompleted(2)

\* C29: when the router call of chatWithTools fails, there is no second model
\* call: the only history sent to the model is the user message, and the call
\* ends by returning the error text.
C29_NoSecondModelCallAfterRouterFailure ==
    toolResult.status = "threw" =>
        /\ modelCalls = <<<<UserTurn(message)>>>>
        /\ toolResponse = NoMessage
        /\ pc = "done"
        /\ outcome.kind = "return"
        /\ outcome.line = 145

\* the router rejected an unknown tool and the call ended after one model call
C29_Witness ==
    /\ pc = "done"
    /\ toolResult.status = "threw"
    /\ Len(posts) = 1
    /\ posts[1].response.status = 400
    /\ Len(modelCalls) = 1
    /\ outcome.text = "Error executing tool: Tool execution failed: Unknown tool: foo"

\* C30: every tool name of TOOLS is a key of the registry, so a request of
\* chatWithTools for an advertised tool, sent with parameters, is never
\* answered with the unknown-tool error.
C30_AdvertisedToolsRegistered ==
    /\ \A k \in 1..Len(TOOLS) : TOOLS[k].name \in RegisteredNames(TOOL_REGISTRY)
    /\ \A i \in 1..Len(posts) :
          LET tool_name == Get(RequestBody(i), "tool_name")
          IN  (/\ \E k \in 1..Len(TOOLS) : tool_name = Str(TOOLS[k].name)
               /\ Truthy(Get(RequestBody(i), "parameters"))) =>
                  /\ "available_tools" \notin DOMAIN Envelope(i).v
                  /\ Get(Envelope(i), "error") # Str("Unknown tool: " \o ToStr(tool_name))
                  /\ posts[i].response.status # 400

\* the advertised tool was requested by the model and served by the router
C30_Witness ==
    /\ Len(posts) = 1
    /\ Get(RequestBody(1), "tool_name") = Str("analyze_data")
    /\ posts[1].response.status = 200
    /\ response.received
    /\ fetches = <<posts[1].request>>

-----------------------------------------------------------------------------
(* Properties of concurrent chatWithTools calls *)

\* the tool_use block call c executes: the first one of its own first response
OwnToolUse(c) == calls[c].response.content[FirstToolUse(calls[c].response)]

\* the router's answers to requests equal to the one call c sent
OwnAnswers(c) ==
    {posts[k].response : k \in {j \in 1..Len(posts) :
                                   posts[j].request = executeToolCallBody(OwnToolUse(c))}}

\* C25: two chatWithTools calls running concurrently do not affect each other:
\* every history a call sends to the model holds only its own user message,
\* its own tool-use turn and the router's result for its own request, and the
\* call returns what its own model responses and router answer determine.
C25_ConcurrentCallsIsolated ==
    \A c \in Calls :
        LET me == calls[c] IN
        /\ Len(me.modelCalls) <= 2
        /\ Len(me.modelCalls) >= 1 =>
              me.modelCalls[1] = <<[role |-> "user", content |-> Str(me.message)]>>
        /\ me.toolResult.status # "none" =>
              \/ me.toolResult = Thrown(Err("fetch failed"))
              \/ \E answer \in OwnAnswers(c) :
                    me.toolResult = executeToolCallResult(answer)
        /\ Len(me.modelCalls) = 2 =>
              \E answer \in OwnAnswers(c) :
                  me.modelCalls[2] =
                      <<[role |-> "user", content |-> Str(me.message)],
                        [role |-> "assistant", content |-> <<OwnToolUse(c)>>],
                        [role |-> "user",
                         content |-> <<[type |-> "tool_result",
                                        tool_use_id |-> OwnToolUse(c).id,
                                        content |-> Get(JSONparse(answer.body).value,
                                                        "result")]>>]>>
        /\ me.pc = "done" =>
              IF ~me.response.received THEN me.outcome.kind = "throw"
              ELSE /\ me.outcome.kind = "return"
                   /\ IF ToolUseCount(me.response.content) = 0
                      THEN me.outcome.text = Join(TextParts(me.response.content), "\n")
                      ELSE IF me.toolResult.status = "threw"
                      THEN me.outcome.text =
                               "Error executing tool: " \o me.toolResult.error.message
                      ELSE IF me.toolResponse.received
                      THEN me.outcome.text = Join(TextParts(me.toolResponse.content), "\n")
                      ELSE me.outcome.text \in
                               {"Error executing tool: " \o e.message : e \in ApiErrors}

\* the second call's request for another tool was served first and its answer
\* is still pending while the first call went through its whole round trip
C25_Witness ==
    /\ Len(posts) = 2
    /\ calls["second"].pc = "response"
    /\ posts[1].request = executeToolCallBody(OwnToolUse("second"))
    /\ OwnToolUse("second").name = "foo"
    /\ calls["first"].pc = "done"
    /\ posts[2].request = executeToolCallBody(OwnToolUse("first"))
    /\ OwnToolUse("first").name = "analyze_data"
    /\ calls["first"].outcome.line = 142
    /\ Len(calls["first"].modelCalls) = 2
    /\ calls["first"].message # calls["second"].message

====
